---- MODULE Spec2Model ----
(***************************************************************************)
(* A model of the resumable, parallel bulk-retrieval engine of             *)
(* src/fasttext/download.py: the group controller                          *)
(* (download_group_files_mp), the partition processor                      *)
(* (process_parquet_file_with_data_slicing), the process tier              *)
(* (process_download_batch), the thread tier and the object fetcher        *)
(* (download_file_from_github).                                            *)
(*                                                                         *)
(* Spec       the group controller over several runs of one group, every   *)
(*            fetch taken as one step of its thread;                       *)
(* SpecLive   Spec without kills, under fair scheduling;                   *)
(* SpecCkpt   Spec over partitions long enough for a checkpoint entry;     *)
(* SpecFetch  concurrent fetches of one destination directory, statement   *)
(*            by statement;                                                *)
(* SpecStats  the statistics of a task list, sliced and unsliced;          *)
(* SpecSelect the choice of a group's partitions and the record as loaded; *)
(* SpecPair   two runs at once on one input_dir and one output_dir;        *)
(* SpecOrder  one partition against a fixed remote, in every completion    *)
(*            order.                                                       *)
(***************************************************************************)
EXTENDS Integers, Sequences, FiniteSets, TLC

(***************************************************************************)
(* Bounds of the model.                                                    *)
(***************************************************************************)
\* partitions (parquet files) of the group
NParts == 2
\* rows of one manifest partition
MaxRows == 2
\* largest thread budget (--threads) a run is given
MaxWorkers == 2
\* largest process budget (--processes) a run is given
MaxProcs == 2
\* minus the smallest process budget a run is given
MaxNegProcs == 1
\* invocations of the group, one after another
MaxRuns == 2
\* environment faults outside a fetch (I/O errors, exceptions) in a behaviour
MaxFaults == 1
\* concurrent fetches of one destination directory (SpecFetch)
NFetchers == 2
\* tasks of the list whose statistics are compared (SpecStats)
MaxTasks == 4
\* *.parquet files of input_dir (SpecSelect)
MaxTotal == 120
\* the largest, and minus the smallest, group_id given (SpecSelect)
MaxGid == 3
MaxNegGid == 2
\* rows of the partition whose completion orders are compared (SpecOrder)
MaxOrderRows == 3

(***************************************************************************)
(* Program constants.                                                      *)
(***************************************************************************)
\* `successful_downloads % 100 == 0`
CHECKPOINT_EVERY == 100

(***************************************************************************)
(* Data.                                                                   *)
(***************************************************************************)
\* rel_path values of manifest rows that name a file
FilePaths == {"a", "b"}

\* rel_path values with an empty os.path.basename: the destination is the
\* directory the fetch has just made
DirPaths == {"d/"}

Paths == FilePaths \cup DirPaths

\* length of the body the content server returns for a file path, and what
\* os.path.getsize tells of a directory
Size(path) == IF path = "a" THEN 1 ELSE IF path = "b" THEN 2 ELSE 3

\* the partitions of the group, as sorted by filename (parquet_files.sort())
current_group_files == [i \in 1..NParts |-> i]

Partitions == 1..NParts

RECURSIVE SeqsUpTo(_, _)
SeqsUpTo(S, n) ==
    IF n = 0 THEN {<<>>}
    ELSE LET shorter == SeqsUpTo(S, n - 1)
         IN  shorter \cup {Append(s, x) : s \in shorter, x \in S}

\* the manifests a partition may hold: rows in order, duplicates allowed
\* (up to the renaming of paths: a manifest's first row names "a")
ManifestChoices ==
    {s \in SeqsUpTo(Paths, MaxRows) : s = <<>> \/ s[1] = "a"}

\* what a GET may end as: a 2xx response, or a transport error / timeout /
\* non-2xx response (requests.get raising, raise_for_status raising)
NetOutcomes == {"ok", "error"}

Min(a, b) == IF a < b THEN a ELSE b

Range(s) == {s[i] : i \in DOMAIN s}

\* checkpoint keys are f"group_{group_id}_file_{file_index}", file_index
\* the position in remaining_files; -1 stands for an absent key
CheckpointKeys == 0..(NParts - 1)
NoEntry == -1
EmptyCheckpoint == [k \in CheckpointKeys |-> NoEntry]

NoResult == [filename |-> 0, total_files |-> 0, successful_downloads |-> 0,
             failed_downloads |-> 0, total_size |-> 0, success |-> FALSE,
             error |-> "none"]

VARIABLES
    \* ---- the environment and the disk
    manifest,            \* partition -> its rows (rel_paths), fixed
    files,               \* destination files on disk: <<partition, rel_path>>
    record,              \* completed_files_group_XXXX.txt: its lines
    ckptFile,            \* checkpoint_group_XXXX.json: key -> completed_files
    faults,              \* environment faults so far
    \* ---- download_group_files_mp
    pc,                  \* "idle" | "running"
    runs,                \* invocations started so far
    max_workers,
    max_processes,
    completed_files,     \* the set load_completed_files returned
    remaining_files,
    file_index,          \* enumerate(remaining_files), from 0
    checkpoint_data,
    total_successful,
    total_failed,
    group_total_size,
    \* ---- process_parquet_file_with_data_slicing
    ppc,                 \* "call" | "single" | "multi"
    start_index,
    batches,             \* the thread pools at work, one per slice
    successful_downloads,
    failed_downloads,
    total_size,
    \* ---- history, read by the properties only
    attempted,           \* rows ever handed to download_file_from_github
    failedRows,          \* rows whose latest fetch failed
    reqWhileExists,      \* rows fetched over the network although on disk
    skips,               \* rows whose fetch found the destination on disk
    invoked,             \* partitions processed in the latest run, in order
    recordAtStart,       \* the record's lines when the latest run started
    loadedSet,           \* what load_completed_files returned to it
    loadFault,           \* whether reading the record failed in it
    lastEnd,             \* "none" | "running" | "returned" | "killed"
    retLog,              \* partition -> what its processings ended as
    lastResult,          \* the result the processor returned last
    inProgress           \* the partition at work when a run was last killed
                         \* (0: none)

VARIABLES
    \* ---- SpecFetch: download_single_file_worker, statement by statement
    fpc,                 \* fetch -> the statement it is at
    ftask,               \* fetch -> its task
    disk,                \* rel_path -> size of the destination file, or Absent
    dirExists,           \* whether the destination directory exists
    fres,                \* fetch -> what download_file_from_github returned
    wres,                \* fetch -> what the worker wrapper returned
    existedAtStart,      \* fetch -> its destination was on disk when it started
    checked,             \* fetch -> os.path.exists was evaluated
    requests,            \* fetch -> GETs it issued
    mkdirSaw,            \* fetch -> what its mkdir found: "none" (not
                         \* called yet) | "absent" | "there"
    interrupted          \* rel_paths whose file a kill left opened, unwritten

VARIABLES
    \* ---- SpecStats
    st_pc,               \* "input" | "single" | "multi" | "both"
    st_tasks,            \* the fetch results of the tasks, in task order
    st_procs,            \* max_processes
    st_single,           \* the statistics of single-process mode
    st_multi,            \* the statistics of multi-process mode
    st_slices            \* process_args of multi-process mode

VARIABLES
    \* ---- SpecSelect: download_group_files_mp up to its loop
    sel_pc,              \* "start" | "nofiles" | "rejected" | "selected" |
                         \* "complete" | "processing"
    sel_glob,            \* the *.parquet files of input_dir (by rank of name)
    sel_gid,             \* group_id
    sel_record,          \* the lines of the group's record file
    sel_completed,       \* what load_completed_files returns
    sel_files,           \* current_group_files
    sel_remaining        \* remaining_files

VARIABLES
    \* ---- SpecPair: two runs at once on one input_dir and one output_dir
    pr_glob,             \* the *.parquet files of input_dir (by rank of name)
    pr_gid,              \* run -> its group_id
    pr_pc,               \* run -> "start" | "nofiles" | "rejected" | "loop" |
                         \*        "done"
    pr_remaining,        \* run -> its remaining_files
    pr_index,            \* run -> its file_index
    pr_writes            \* run -> the paths under output_dir it has written

VARIABLES
    \* ---- SpecOrder: one partition processed against a remote that is fixed
    od_rows,             \* the manifest rows: <<repo, rel_path>>
    od_remote,           \* URL (repo and rel_path) -> what a GET of it ends as
    od_workers,          \* max_workers
    od_procs,            \* max_processes
    od_pc,               \* "call" | "single" | "multi" | "returned"
    od_files,            \* destination files on disk: <<partition, rel_path>>
    od_batches,          \* the thread pools at work, one per slice
    od_stats             \* the processor's successful_downloads,
                         \* failed_downloads and total_size

fetchVars == <<fpc, ftask, disk, dirExists, fres, wres, existedAtStart,
               checked, requests, mkdirSaw, interrupted>>
statVars == <<st_pc, st_tasks, st_procs, st_single, st_multi, st_slices>>
selVars == <<sel_pc, sel_glob, sel_gid, sel_record, sel_completed, sel_files,
             sel_remaining>>
pairVars == <<pr_glob, pr_gid, pr_pc, pr_remaining, pr_index, pr_writes>>
orderVars == <<od_rows, od_remote, od_workers, od_procs, od_pc, od_files,
               od_batches, od_stats>>

persistVars == <<manifest, files, record, ckptFile, faults>>
runVars == <<pc, runs, max_workers, max_processes, completed_files,
             remaining_files, file_index, checkpoint_data,
             total_successful, total_failed, group_total_size>>
partVars == <<ppc, start_index, batches, successful_downloads,
              failed_downloads, total_size>>
runHist == <<invoked, recordAtStart, loadedSet, loadFault>>
fetchHist == <<attempted, failedRows, reqWhileExists, skips>>
histVars == <<fetchHist, runHist, lastEnd, retLog, lastResult>>
groupVars == <<persistVars, runVars, partVars, histVars, inProgress>>
vars == <<groupVars, fetchVars, statVars, selVars, pairVars, orderVars>>

(***************************************************************************)
(* ObjectFetcher, one call taken as one step.                              *)
(***************************************************************************)
\* download_file_from_github, for partition directory p, with the files fs on
\* disk and net the outcome of the GET should one be issued.  request and
\* written tell what the call did.
download_file_from_github(p, path, net, fs) ==
    IF path \in DirPaths
    THEN [success |-> TRUE, filename |-> FALSE, size |-> Size(path),
          error |-> "none", request |-> FALSE, written |-> FALSE]
    ELSE IF <<p, path>> \in fs
    THEN [success |-> TRUE, filename |-> TRUE, size |-> Size(path),
          error |-> "none", request |-> FALSE, written |-> FALSE]
    ELSE IF net = "ok"
    THEN [success |-> TRUE, filename |-> TRUE, size |-> Size(path),
          error |-> "none", request |-> TRUE, written |-> TRUE]
    ELSE [success |-> FALSE, filename |-> FALSE, size |-> 0,
          error |-> net, request |-> TRUE, written |-> FALSE]

\* `if result['success'] and result['filename']`
Counted(result) == result.success /\ result.filename

(***************************************************************************)
(* WorkerPool: the statistics of a thread pool.                            *)
(***************************************************************************)
ZeroStats == [successful_downloads |-> 0, failed_downloads |-> 0,
              total_size |-> 0]

\* the body of the loop over as_completed: one result counted
CountResult(st, result) ==
    IF Counted(result)
    THEN [st EXCEPT !.successful_downloads = @ + 1,
                    !.total_size = @ + result.size]
    ELSE [st EXCEPT !.failed_downloads = @ + 1]

(***************************************************************************)
(* CompletionRecord.                                                       *)
(***************************************************************************)
\* A filename stands as a number: 0 and above for a name that begins with a
\* character other than white space (in Spec the partitions 1..NParts, in
\* SpecSelect the rank of the name among such names), Padded(n) for the name
\* n with a blank before it.  A blank sorts before the other characters, as
\* the negative numbers before the others.
Padded(name) == 0 - name - 1

\* line.strip(): the white space at both ends of the line is removed, the
\* newline save_completed_file wrote and the blank a name begins with
strip(line) == IF line < 0 THEN Padded(line) ELSE line

\* a load that ignores the file
load_completed_files_none(lines, upto) == {}

\* load_completed_files: the lines read, each stripped; a read error keeps
\* the lines read before it (upto < Len); a file that is not there gives
\* the empty set, as a file without lines does.  (`if line` drops a line of
\* white space only: no filename is one.)
load_completed_files(lines, upto) == {strip(lines[i]) : i \in 1..upto}

\* save_completed_file: append, unless the write raises (caught and printed)
save_completed_file(lines, parquet_filename, ok) ==
    IF ok THEN Append(lines, parquet_filename) ELSE lines

(***************************************************************************)
(* ProcessPool: the slices of a task list.                                 *)
(***************************************************************************)
\* the slice length rounded down
tasks_per_process_floor(n, procs) == n \div procs

\* tasks_per_process = math.ceil(len(download_tasks) / max_processes)
tasks_per_process(n, procs) == (n + procs - 1) \div procs

\* one slice per i in range(max_processes), the empty ones too
process_args_all(tasks, procs) ==
    LET n == Len(tasks)
        tpp == tasks_per_process(n, procs)
    IN  [j \in 1..procs |->
            SubSeq(tasks, Min((j - 1) * tpp, n) + 1, Min((j - 1) * tpp + tpp, n))]

\* process_args: one slice per i in range(max_processes) with
\* start_task < len(download_tasks)
process_args(tasks, procs) ==
    LET n == Len(tasks)
        tpp == tasks_per_process(n, procs)
        used == {i \in 0..(procs - 1) : i * tpp < n}
    IN  [j \in 1..Cardinality(used) |->
            SubSeq(tasks, (j - 1) * tpp + 1, Min((j - 1) * tpp + tpp, n))]

\* a thread pool over tasks: done the positions whose result came back, bad
\* those among them whose fetch failed, limit the tasks that run, threads
\* its worker threads, crashed an exception outside a fetch, stats the
\* counters of process_download_batch
\* ThreadPoolExecutor(max_workers) raises ValueError for a budget of 0 or
\* less: the block is left by the exception before any task is submitted.
NewBatch(tasks, workers) ==
    IF workers <= 0
    THEN [tasks |-> tasks, done |-> {}, bad |-> {}, limit |-> 0,
          threads |-> 0, crashed |-> TRUE, returned |-> FALSE,
          stats |-> ZeroStats]
    ELSE [tasks |-> tasks, done |-> {}, bad |-> {}, limit |-> Len(tasks),
          threads |-> workers, crashed |-> FALSE, returned |-> FALSE,
          stats |-> ZeroStats]

\* a pool with a thread for every task submitted
Started_all(b) == b.limit

\* ThreadPoolExecutor(max_workers): work items start in submission order, a
\* thread takes the next one as soon as it is free
Started(b) == Min(b.limit, Cardinality(b.done) + b.threads)

\* a pool none of whose tasks is ever run
InFlight_none(b) == {}

\* the tasks a worker thread is running
InFlight(b) == (1..Started(b)) \ b.done

\* a pool that is left while tasks are running
PoolLeft_nowait(b) == TRUE

\* the end of a `with ThreadPoolExecutor(...)` block, shutdown(wait=True):
\* it is left once every task that was started has come back
PoolLeft(b) == b.done = 1..b.limit

\* download_tasks: rows from start_index on
download_tasks(rows, start) ==
    LET n == Len(rows)
        from == Min(start, n)
    IN  [j \in 1..(n - from) |-> [path |-> rows[from + j], idx |-> from + j - 1]]

\* a loop that stays on the first remaining partition
Current_first == remaining_files[1]

\* the partition being processed
Current == remaining_files[file_index + 1]

GroupIdle ==
    /\ files = {}
    /\ record = <<>>
    /\ ckptFile = EmptyCheckpoint
    /\ faults = 0
    /\ pc = "idle"
    /\ runs = 0
    /\ max_workers = 1
    /\ max_processes = 1
    /\ completed_files = {}
    /\ remaining_files = <<>>
    /\ file_index = 0
    /\ checkpoint_data = EmptyCheckpoint
    /\ total_successful = 0
    /\ total_failed = 0
    /\ group_total_size = 0
    /\ ppc = "call"
    /\ start_index = 0
    /\ batches = <<>>
    /\ successful_downloads = 0
    /\ failed_downloads = 0
    /\ total_size = 0
    /\ attempted = {}
    /\ failedRows = {}
    /\ reqWhileExists = {}
    /\ skips = {}
    /\ invoked = <<>>
    /\ recordAtStart = <<>>
    /\ loadedSet = {}
    /\ loadFault = FALSE
    /\ lastEnd = "none"
    /\ retLog = [p \in Partitions |-> {}]
    /\ lastResult = NoResult
    /\ inProgress = 0

\* the run is over (returned or killed): its memory is gone
RunOver ==
    /\ pc' = "idle"
    /\ max_workers' = 1
    /\ max_processes' = 1
    /\ completed_files' = {}
    /\ remaining_files' = <<>>
    /\ file_index' = 0
    /\ checkpoint_data' = EmptyCheckpoint
    /\ total_successful' = 0
    /\ total_failed' = 0
    /\ group_total_size' = 0

PartitionOver ==
    /\ ppc' = "call"
    /\ start_index' = 0
    /\ batches' = <<>>
    /\ successful_downloads' = 0
    /\ failed_downloads' = 0
    /\ total_size' = 0

(***************************************************************************)
(* GroupController: download_group_files_mp.                               *)
(***************************************************************************)
Result(p, total, s, f, size, ok, err) ==
    [filename |-> p, total_files |-> total, successful_downloads |-> s,
     failed_downloads |-> f, total_size |-> size, success |-> ok,
     error |-> err]

\* an except branch that reports success
FailedResult_success(p, e) == Result(p, 0, 0, 0, 0, TRUE, e)

\* `except Exception as e` of the processor: the FAILED result
FailedResult(p, e) == Result(p, 0, 0, 0, 0, FALSE, e)

\* a controller that records every partition it processed
RecordAfter_always(result, lines, parquet_filename, ok) ==
    save_completed_file(lines, parquet_filename, ok)

\* `if result['success']: ... save_completed_file(...)`
RecordAfter(result, lines, parquet_filename, ok) ==
    IF result.success
    THEN save_completed_file(lines, parquet_filename, ok)
    ELSE lines

\* the rest of the loop body once the processor returned result: the totals,
\* save_completed_file on success, save_checkpoint, the next partition or
\* the end of the run.  ckd is checkpoint_data as the processor left it,
\* nf the faults of the step so far.
LoopTail(result, ckd, appendOK, nf) ==
    /\ (~appendOK) => (result.success /\ faults + nf < MaxFaults)
    /\ faults' = faults + nf + (IF appendOK THEN 0 ELSE 1)
    /\ record' = RecordAfter(result, record, Current, appendOK)
    /\ ckptFile' = ckd
    /\ lastResult' = result
    /\ retLog' = [retLog EXCEPT ![Current] = @ \cup
                    {IF ~result.success THEN "failed"
                     ELSE IF appendOK THEN "ok_saved" ELSE "ok_unsaved"}]
    /\ PartitionOver
    /\ IF file_index + 1 < Len(remaining_files)
       THEN /\ pc' = "running"
            /\ file_index' = file_index + 1
            /\ checkpoint_data' = ckd
            /\ total_successful' = IF result.success
                   THEN total_successful + result.successful_downloads
                   ELSE total_successful
            /\ total_failed' = IF result.success
                   THEN total_failed + result.failed_downloads
                   ELSE total_failed
            /\ group_total_size' = IF result.success
                   THEN group_total_size + result.total_size
                   ELSE group_total_size
            /\ UNCHANGED <<max_workers, max_processes, completed_files,
                           remaining_files, lastEnd>>
       ELSE RunOver /\ lastEnd' = "returned"

\* a filter that keeps every partition of the group
Remaining_all(loaded) == current_group_files

\* remaining_files: the partitions of the group whose filename is not in
\* completed_files
Remaining(loaded) ==
    SelectSeq(current_group_files, LAMBDA x : x \notin loaded)

\* a run starts: the record and the checkpoint are loaded, the partitions
\* already recorded are filtered out; nothing remaining ends the run
download_group_files_mp(mw, mp, upto) ==
    /\ pc = "idle"
    /\ runs < MaxRuns
    /\ upto < Len(record) => faults < MaxFaults
    /\ LET loaded == load_completed_files(record, upto)
           rem == Remaining(loaded)
       IN  /\ runs' = runs + 1
           /\ faults' = faults + (IF upto < Len(record) THEN 1 ELSE 0)
           /\ invoked' = <<>>
           /\ inProgress' = 0
           /\ recordAtStart' = record
           /\ loadedSet' = loaded
           /\ loadFault' = (upto < Len(record))
           /\ IF rem = <<>>
              THEN RunOver /\ lastEnd' = "returned"
              ELSE /\ lastEnd' = "running"
                   /\ pc' = "running"
                   /\ max_workers' = mw
                   /\ max_processes' = mp
                   /\ completed_files' = loaded
                   /\ remaining_files' = rem
                   /\ file_index' = 0
                   /\ checkpoint_data' = ckptFile
                   /\ total_successful' = 0
                   /\ total_failed' = 0
                   /\ group_total_size' = 0
    /\ UNCHANGED <<manifest, files, record, ckptFile, partVars, fetchHist,
                   retLog, lastResult>>
    /\ UNCHANGED <<fetchVars, statVars, selVars, pairVars,
                   orderVars>>

(***************************************************************************)
(* PartitionProcessor: process_parquet_file_with_data_slicing.             *)
(***************************************************************************)
\* `if checkpoint_data and checkpoint_key in checkpoint_data`
ResumeIndex(ckd, key) == IF ckd[key] # NoEntry THEN ckd[key] ELSE 0

\* pd.read_parquet raises: the except branch returns the FAILED result
ReadFails ==
    /\ pc = "running" /\ ppc = "call"
    /\ faults < MaxFaults
    /\ invoked' = Append(invoked, Current)
    /\ LoopTail(FailedResult(Current, "read"),
                checkpoint_data, TRUE, 1)
    /\ UNCHANGED <<manifest, files, runs, fetchHist, recordAtStart,
                   loadedSet, loadFault>>
    /\ UNCHANGED <<fetchVars, statVars, selVars, pairVars, orderVars,
                   inProgress>>

\* `if not download_tasks`: the early return
NoTasks ==
    /\ pc = "running" /\ ppc = "call"
    /\ LET start == ResumeIndex(checkpoint_data, file_index)
           rows == manifest[Current]
       IN  /\ download_tasks(rows, start) = <<>>
           /\ \E appendOK \in BOOLEAN :
                LoopTail(Result(Current, Len(rows), start, 0, 0, TRUE, "none"),
                         checkpoint_data, appendOK, 0)
    /\ invoked' = Append(invoked, Current)
    /\ UNCHANGED <<manifest, files, runs, fetchHist, recordAtStart,
                   loadedSet, loadFault>>
    /\ UNCHANGED <<fetchVars, statVars, selVars, pairVars, orderVars,
                   inProgress>>

\* `if max_processes == 1`: one thread pool in this process
DispatchSingle ==
    /\ pc = "running" /\ ppc = "call"
    /\ max_processes = 1
    /\ LET start == ResumeIndex(checkpoint_data, file_index)
           tasks == download_tasks(manifest[Current], start)
       IN  /\ tasks # <<>>
           /\ ppc' = "single"
           /\ start_index' = start
           /\ batches' = <<NewBatch(tasks, max_workers)>>
           /\ successful_downloads' = start
           /\ failed_downloads' = 0
           /\ total_size' = 0
    /\ invoked' = Append(invoked, Current)
    /\ UNCHANGED <<persistVars, runVars, fetchHist, recordAtStart,
                   loadedSet, loadFault, lastEnd, retLog, lastResult>>
    /\ UNCHANGED <<fetchVars, statVars, selVars, pairVars, orderVars,
                   inProgress>>

\* else: the task list is sliced, one process_download_batch per slice
DispatchMulti ==
    /\ pc = "running" /\ ppc = "call"
    /\ max_processes # 1
    /\ max_processes > 0
    /\ LET start == ResumeIndex(checkpoint_data, file_index)
           tasks == download_tasks(manifest[Current], start)
           slices == process_args(tasks, max_processes)
       IN  /\ tasks # <<>>
           /\ ppc' = "multi"
           /\ start_index' = start
           /\ batches' = [j \in DOMAIN slices |-> NewBatch(slices[j], max_workers)]
           /\ successful_downloads' = start
           /\ failed_downloads' = 0
           /\ total_size' = 0
    /\ invoked' = Append(invoked, Current)
    /\ UNCHANGED <<persistVars, runVars, fetchHist, recordAtStart,
                   loadedSet, loadFault, lastEnd, retLog, lastResult>>
    /\ UNCHANGED <<fetchVars, statVars, selVars, pairVars, orderVars,
                   inProgress>>

\* else, with --processes 0 or less: math.ceil(len(download_tasks) / 0)
\* raises ZeroDivisionError, ProcessPoolExecutor(max_workers) raises
\* ValueError for a negative budget; the except branch returns the FAILED
\* result and no task is submitted
DispatchRaises ==
    /\ pc = "running" /\ ppc = "call"
    /\ max_processes # 1
    /\ max_processes <= 0
    /\ download_tasks(manifest[Current],
                      ResumeIndex(checkpoint_data, file_index)) # <<>>
    /\ invoked' = Append(invoked, Current)
    /\ LoopTail(FailedResult(Current, "dispatch"),
                checkpoint_data, TRUE, 0)
    /\ UNCHANGED <<manifest, files, runs, fetchHist, recordAtStart,
                   loadedSet, loadFault>>
    /\ UNCHANGED <<fetchVars, statVars, selVars, pairVars, orderVars,
                   inProgress>>

\* what one fetch of task t of pool j does to the disk and to the history
FetchEffects(j, t, result) ==
    LET task == batches[j].tasks[t]
        row == <<Current, task.idx>>
    IN  /\ files' = IF result.written
                    THEN files \cup {<<Current, task.path>>} ELSE files
        /\ attempted' = attempted \cup {row}
        /\ failedRows' = IF result.success
                         THEN failedRows \ {row} ELSE failedRows \cup {row}
        /\ reqWhileExists' = IF result.request /\ <<Current, task.path>> \in files
                             THEN reqWhileExists \cup {row} ELSE reqWhileExists
        /\ skips' = IF <<Current, task.path>> \in files
                    THEN skips \cup {row} ELSE skips

\* single-process mode: a worker thread's result comes back and is counted;
\* `if successful_downloads % 100 == 0` writes the checkpoint entry
SingleResult(t, net) ==
    /\ pc = "running" /\ ppc = "single"
    /\ t \in InFlight(batches[1])
    /\ LET b == batches[1]
           result == download_file_from_github(Current, b.tasks[t].path, net, files)
           st == CountResult([successful_downloads |-> successful_downloads,
                              failed_downloads |-> failed_downloads,
                              total_size |-> total_size], result)
       IN  /\ FetchEffects(1, t, result)
           /\ batches' = [batches EXCEPT ![1].done = @ \cup {t},
                 ![1].bad = IF result.success THEN @ ELSE @ \cup {t}]
           /\ IF b.crashed
              THEN UNCHANGED <<successful_downloads, failed_downloads,
                               total_size, checkpoint_data>>
              ELSE /\ successful_downloads' = st.successful_downloads
                   /\ failed_downloads' = st.failed_downloads
                   /\ total_size' = st.total_size
                   /\ checkpoint_data' =
                         IF st.successful_downloads % CHECKPOINT_EVERY = 0
                         THEN [checkpoint_data EXCEPT ![file_index] =
                                   st.successful_downloads]
                         ELSE checkpoint_data
    /\ UNCHANGED <<manifest, record, ckptFile, faults, pc, runs, max_workers,
                   max_processes, completed_files, remaining_files,
                   file_index, total_successful, total_failed,
                   group_total_size, ppc, start_index, runHist, lastEnd,
                   retLog, lastResult>>
    /\ UNCHANGED <<fetchVars, statVars, selVars, pairVars, orderVars,
                   inProgress>>

\* process_download_batch: a worker thread's result comes back and is counted
BatchResult(j, t, net) ==
    /\ pc = "running" /\ ppc = "multi"
    /\ j \in DOMAIN batches
    /\ t \in InFlight(batches[j])
    /\ LET b == batches[j]
           result == download_file_from_github(Current, b.tasks[t].path, net, files)
       IN  /\ FetchEffects(j, t, result)
           /\ batches' = [batches EXCEPT ![j] =
                 [b EXCEPT !.done = @ \cup {t},
                           !.bad = IF result.success THEN @ ELSE @ \cup {t},
                           !.stats = IF b.crashed THEN @
                                     ELSE CountResult(@, result)]]
    /\ UNCHANGED <<manifest, record, ckptFile, faults, runVars, ppc,
                   start_index, successful_downloads, failed_downloads,
                   total_size, runHist, lastEnd, retLog, lastResult>>
    /\ UNCHANGED <<fetchVars, statVars, selVars, pairVars, orderVars,
                   inProgress>>

\* an exception outside any fetch inside a thread pool's block.  Either
\* executor.submit raises for the k-th task, whose thread cannot be started
\* (k <= max_workers): the k tasks queued so far run on the k - 1 threads
\* there are, none when k = 1, and the others are never submitted.  Or the
\* result loop raises (the progress display): every task was submitted and
\* runs before the pool is left.
PoolRaises(j, k) ==
    /\ pc = "running" /\ ppc \in {"single", "multi"}
    /\ j \in DOMAIN batches
    /\ faults < MaxFaults
    /\ ~batches[j].crashed /\ ~batches[j].returned
    /\ \/ /\ k \in 1..Min(Len(batches[j].tasks), max_workers)
          /\ batches[j].done = {}
          /\ batches' = [batches EXCEPT ![j].crashed = TRUE,
                            ![j].limit = IF k = 1 THEN 0 ELSE k,
                            ![j].threads = k - 1]
       \/ /\ k = 0
          /\ batches' = [batches EXCEPT ![j].crashed = TRUE]
    /\ faults' = faults + 1
    /\ UNCHANGED <<manifest, files, record, ckptFile, runVars, ppc,
                   start_index, successful_downloads, failed_downloads,
                   total_size, histVars>>
    /\ UNCHANGED <<fetchVars, statVars, selVars, pairVars, orderVars,
                   inProgress>>

\* the statistics process_download_batch returns: the counts, or the zeros
\* of its except branch
process_download_batch(b) == IF b.crashed THEN ZeroStats ELSE b.stats

\* a worker process returns and the parent adds its statistics
BatchReturn(j) ==
    /\ pc = "running" /\ ppc = "multi"
    /\ j \in DOMAIN batches
    /\ ~batches[j].returned
    /\ PoolLeft(batches[j])
    /\ LET r == process_download_batch(batches[j])
       IN  /\ successful_downloads' = successful_downloads + r.successful_downloads
           /\ failed_downloads' = failed_downloads + r.failed_downloads
           /\ total_size' = total_size + r.total_size
    /\ batches' = [batches EXCEPT ![j].returned = TRUE]
    /\ UNCHANGED <<persistVars, runVars, ppc, start_index, histVars>>
    /\ UNCHANGED <<fetchVars, statVars, selVars, pairVars, orderVars,
                   inProgress>>

\* a worker process dies (killed, out of memory) before it returned: the
\* pool is broken, future.result() raises BrokenProcessPool in the parent,
\* the pool ends its other workers and the except branch returns the FAILED
\* result
WorkerDies(j) ==
    /\ pc = "running" /\ ppc = "multi"
    /\ j \in DOMAIN batches
    /\ ~batches[j].returned
    /\ faults < MaxFaults
    /\ LoopTail(FailedResult(Current, "broken"),
                checkpoint_data, TRUE, 1)
    /\ UNCHANGED <<manifest, files, runs, fetchHist, runHist>>
    /\ UNCHANGED <<fetchVars, statVars, selVars, pairVars, orderVars,
                   inProgress>>

\* multi-process mode: every worker process returned, the processor returns
ReturnMulti ==
    /\ pc = "running" /\ ppc = "multi"
    /\ \A j \in DOMAIN batches : batches[j].returned
    /\ \E appendOK \in BOOLEAN :
         LoopTail(Result(Current, Len(manifest[Current]), successful_downloads,
                         failed_downloads, total_size, TRUE, "none"),
                  checkpoint_data, appendOK, 0)
    /\ UNCHANGED <<manifest, files, runs, fetchHist, runHist>>
    /\ UNCHANGED <<fetchVars, statVars, selVars, pairVars, orderVars,
                   inProgress>>

\* single-process mode: the pool is left, the processor returns; an
\* exception in the pool's block reaches the except branch
ReturnSingle ==
    /\ pc = "running" /\ ppc = "single"
    /\ PoolLeft(batches[1])
    /\ IF batches[1].crashed
       THEN LoopTail(FailedResult(Current, "exception"),
                     checkpoint_data, TRUE, 0)
       ELSE \E appendOK \in BOOLEAN :
              LoopTail(Result(Current, Len(manifest[Current]),
                              successful_downloads, failed_downloads,
                              total_size, TRUE, "none"),
                       checkpoint_data, appendOK, 0)
    /\ UNCHANGED <<manifest, files, runs, fetchHist, runHist>>
    /\ UNCHANGED <<fetchVars, statVars, selVars, pairVars, orderVars,
                   inProgress>>

\* the run is terminated (Ctrl-C, kill): the disk stays as it is
Kill ==
    /\ pc = "running"
    /\ RunOver
    /\ PartitionOver
    /\ lastEnd' = "killed"
    /\ inProgress' = IF ppc = "call" THEN 0 ELSE Current
    /\ UNCHANGED <<persistVars, runs, fetchHist, runHist, retLog, lastResult>>
    /\ UNCHANGED <<fetchVars, statVars, selVars, pairVars,
                   orderVars>>

(***************************************************************************)
(* ObjectFetcher and the worker wrapper, statement by statement            *)
(* (SpecFetch): the fetches of one thread pool, or of several worker       *)
(* processes, that share a destination directory.                          *)
(***************************************************************************)
Fetchers == 1..NFetchers

Absent == -1

NoFetchResult == [success |-> FALSE, filename |-> FALSE, size |-> 0,
                  error |-> "pending", raised |-> FALSE]

NoWorkerResult == [success |-> FALSE, filename |-> FALSE, size |-> 0,
                   error |-> "pending", file_index |-> -1, repo |-> "",
                   rel_path |-> ""]

\* the skipped return and the downloaded return of download_file_from_github
Returned(size) == [success |-> TRUE, filename |-> TRUE, size |-> size,
                   error |-> "none", raised |-> FALSE]

\* an exception that leaves download_file_from_github
OnException_reraise(e) == [success |-> FALSE, filename |-> FALSE, size |-> 0,
                           error |-> e, raised |-> TRUE]

\* `except Exception as e`: the failure result of download_file_from_github
OnException(e) == [success |-> FALSE, filename |-> FALSE, size |-> 0,
                   error |-> e, raised |-> FALSE]

\* os.path.getsize(output_path)
getsize(path) == disk[path]

\* a fetch that does not look at the disk
AfterMkdir_get == "get"

\* the statement after the directory is made: `if os.path.exists(...)`
AfterMkdir == "exists"

FetchIdle ==
    /\ fpc = [t \in Fetchers |-> "idle"]
    /\ ftask = [t \in Fetchers |-> [repo |-> "r", rel_path |-> "a", idx |-> t - 1]]
    /\ disk = [path \in FilePaths |-> Absent]
    /\ dirExists = FALSE
    /\ fres = [t \in Fetchers |-> NoFetchResult]
    /\ wres = [t \in Fetchers |-> NoWorkerResult]
    /\ existedAtStart = [t \in Fetchers |-> FALSE]
    /\ checked = [t \in Fetchers |-> FALSE]
    /\ requests = [t \in Fetchers |-> 0]
    /\ mkdirSaw = [t \in Fetchers |-> "none"]
    /\ interrupted = {}

\* the tasks of the fetches, and the disk as earlier runs left it: a file is
\* absent, complete, or empty (opened by a fetch that was killed)
FetchInit ==
    /\ fpc = [t \in Fetchers |-> "idle"]
    /\ \E choice \in [Fetchers -> FilePaths] :
          ftask = [t \in Fetchers |->
                     [repo |-> "r", rel_path |-> choice[t], idx |-> t - 1]]
    /\ disk \in [FilePaths -> {Absent, 0} \cup {Size(path) : path \in FilePaths}]
    /\ \A path \in FilePaths : disk[path] \in {Absent, 0, Size(path)}
    /\ dirExists = (\E path \in FilePaths : disk[path] # Absent)
    /\ fres = [t \in Fetchers |-> NoFetchResult]
    /\ wres = [t \in Fetchers |-> NoWorkerResult]
    /\ existedAtStart = [t \in Fetchers |-> FALSE]
    /\ checked = [t \in Fetchers |-> FALSE]
    /\ requests = [t \in Fetchers |-> 0]
    /\ mkdirSaw = [t \in Fetchers |-> "none"]
    /\ interrupted = {}

PathOf(t) == ftask[t].rel_path

FetchFrame(t) ==
    /\ UNCHANGED <<ftask, interrupted, groupVars, statVars, selVars, pairVars,
                   orderVars>>
    /\ \A u \in Fetchers \ {t} : fpc'[u] = fpc[u]

\* a worker thread takes the task and enters download_file_from_github
Begin(t) ==
    /\ fpc[t] = "idle"
    /\ fpc' = [fpc EXCEPT ![t] = "mkdir"]
    /\ existedAtStart' = [existedAtStart EXCEPT ![t] = disk[PathOf(t)] # Absent]
    /\ UNCHANGED <<disk, dirExists, fres, wres, checked, requests, mkdirSaw>>
    /\ FetchFrame(t)

\* a mkdir for which an existing directory is an error
exist_ok_unset == FALSE

\* the exist_ok of Path(file_dir).mkdir(parents=True, exist_ok=True)
exist_ok == TRUE

\* Path.mkdir on a directory that is there or not, ok telling whether the
\* directory can be made: os.mkdir makes it or fails in one step; its
\* FileExistsError is passed over if exist_ok is set
mkdir(there, ok) ==
    IF there THEN (IF exist_ok THEN "there" ELSE "raise")
    ELSE IF ok THEN "made" ELSE "raise"

\* Path(file_dir).mkdir(parents=True, exist_ok=True): an existing directory
\* is no error, whoever made it; creating it may fail
Mkdir(t, ok) ==
    /\ fpc[t] = "mkdir"
    /\ ok \/ ~dirExists
    /\ mkdirSaw' = [mkdirSaw EXCEPT ![t] = IF dirExists THEN "there" ELSE "absent"]
    /\ IF mkdir(dirExists, ok) # "raise"
       THEN /\ dirExists' = TRUE
            /\ fpc' = [fpc EXCEPT ![t] = AfterMkdir]
            /\ UNCHANGED fres
       ELSE /\ fres' = [fres EXCEPT ![t] = OnException("mkdir")]
            /\ fpc' = [fpc EXCEPT ![t] = "ret"]
            /\ UNCHANGED dirExists
    /\ UNCHANGED <<disk, wres, existedAtStart, checked, requests>>
    /\ FetchFrame(t)

\* `if os.path.exists(output_path)`
Exists(t) ==
    /\ fpc[t] = "exists"
    /\ checked' = [checked EXCEPT ![t] = TRUE]
    /\ fpc' = [fpc EXCEPT ![t] =
                 IF disk[PathOf(t)] # Absent THEN "getsize" ELSE "get"]
    /\ UNCHANGED <<disk, dirExists, fres, wres, existedAtStart, requests,
                   mkdirSaw>>
    /\ FetchFrame(t)

\* `size = os.path.getsize(output_path)` and the skipped return
GetSize(t) ==
    /\ fpc[t] = "getsize"
    /\ fres' = [fres EXCEPT ![t] = Returned(getsize(PathOf(t)))]
    /\ fpc' = [fpc EXCEPT ![t] = "ret"]
    /\ UNCHANGED <<disk, dirExists, wres, existedAtStart, checked, requests,
                   mkdirSaw>>
    /\ FetchFrame(t)

\* a fetch that issues its request again after a failure
AfterFailedGet_retry == "get"

\* where a failed request leaves the fetch: at the return of the except
\* branch
AfterFailedGet == "ret"

\* requests.get(url, timeout=30) and response.raise_for_status()
Get(t, net) ==
    /\ fpc[t] = "get"
    /\ requests' = [requests EXCEPT ![t] = @ + 1]
    /\ IF net = "ok"
       THEN /\ fpc' = [fpc EXCEPT ![t] = "open"]
            /\ UNCHANGED fres
       ELSE /\ fres' = [fres EXCEPT ![t] = OnException(net)]
            /\ fpc' = [fpc EXCEPT ![t] = AfterFailedGet]
    /\ UNCHANGED <<disk, dirExists, wres, existedAtStart, checked, mkdirSaw>>
    /\ FetchFrame(t)

\* a write that leaves the destination as it is until the body is there
OpenedSize_temp(old) == old

\* the size of the destination after open(output_path, 'wb')
OpenedSize(old) == 0

\* open(output_path, 'wb'): the file is created, or truncated if it exists
Open(t, ok) ==
    /\ fpc[t] = "open"
    /\ IF ok
       THEN /\ disk' = [disk EXCEPT ![PathOf(t)] = OpenedSize(@)]
            /\ fpc' = [fpc EXCEPT ![t] = "write"]
            /\ UNCHANGED fres
       ELSE /\ fres' = [fres EXCEPT ![t] = OnException("open")]
            /\ fpc' = [fpc EXCEPT ![t] = "ret"]
            /\ UNCHANGED disk
    /\ UNCHANGED <<dirExists, wres, existedAtStart, checked, requests,
                   mkdirSaw>>
    /\ FetchFrame(t)

\* f.write(response.content), the file closed, the downloaded return
Write(t, ok) ==
    /\ fpc[t] = "write"
    /\ IF ok
       THEN /\ disk' = [disk EXCEPT ![PathOf(t)] = Size(PathOf(t))]
            /\ fres' = [fres EXCEPT ![t] = Returned(Size(PathOf(t)))]
       ELSE /\ fres' = [fres EXCEPT ![t] = OnException("write")]
            /\ UNCHANGED disk
    /\ fpc' = [fpc EXCEPT ![t] = "ret"]
    /\ UNCHANGED <<dirExists, wres, existedAtStart, checked, requests,
                   mkdirSaw>>
    /\ FetchFrame(t)

\* download_single_file_worker: the result with file_index, repo and rel_path
\* added, or its own failure result if the call raised
download_single_file_worker(task, result) ==
    IF result.raised
    THEN [success |-> FALSE, filename |-> FALSE, size |-> 0,
          error |-> result.error, file_index |-> task.idx,
          repo |-> task.repo, rel_path |-> task.rel_path]
    ELSE [success |-> result.success, filename |-> result.filename,
          size |-> result.size, error |-> result.error,
          file_index |-> task.idx, repo |-> task.repo,
          rel_path |-> task.rel_path]

WorkerReturns(t) ==
    /\ fpc[t] = "ret"
    /\ wres' = [wres EXCEPT ![t] = download_single_file_worker(ftask[t], fres[t])]
    /\ fpc' = [fpc EXCEPT ![t] = "done"]
    /\ UNCHANGED <<disk, dirExists, fres, existedAtStart, checked, requests,
                   mkdirSaw>>
    /\ FetchFrame(t)

\* the process is killed while fetches are under way, and the tasks are
\* fetched again by the next run: the disk stays as it is, with the files
\* that were opened and not yet written
FetchKill ==
    /\ \E t \in Fetchers : fpc[t] # "idle"
    /\ fpc' = [t \in Fetchers |-> "idle"]
    /\ fres' = [t \in Fetchers |-> NoFetchResult]
    /\ wres' = [t \in Fetchers |-> NoWorkerResult]
    /\ existedAtStart' = [t \in Fetchers |-> FALSE]
    /\ checked' = [t \in Fetchers |-> FALSE]
    /\ requests' = [t \in Fetchers |-> 0]
    /\ mkdirSaw' = [t \in Fetchers |-> "none"]
    /\ interrupted' = interrupted \cup
          {PathOf(t) : t \in {u \in Fetchers :
              fpc[u] = "write" /\ disk[PathOf(u)] # Size(PathOf(u))}}
    /\ UNCHANGED <<ftask, disk, dirExists, groupVars, statVars, selVars,
                   pairVars,
                   orderVars>>

FetchErrors == {"transport", "timeout", "http"}

NextFetch ==
    \/ \E t \in Fetchers : Begin(t)
    \/ \E t \in Fetchers, ok \in BOOLEAN : Mkdir(t, ok)
    \/ \E t \in Fetchers : Exists(t)
    \/ \E t \in Fetchers : GetSize(t)
    \/ \E t \in Fetchers, net \in {"ok"} \cup FetchErrors : Get(t, net)
    \/ \E t \in Fetchers, ok \in BOOLEAN : Open(t, ok)
    \/ \E t \in Fetchers, ok \in BOOLEAN : Write(t, ok)
    \/ \E t \in Fetchers : WorkerReturns(t)
    \/ FetchKill

(***************************************************************************)
(* The statistics of a task list (SpecStats): single-process mode against  *)
(* multi-process mode on the same fetch results.                           *)
(***************************************************************************)
\* what the fetch of a task returned: downloaded or skipped with a size, or
\* failed
ResultChoices ==
    {[success |-> TRUE, filename |-> path \in FilePaths, size |-> Size(path)] :
        path \in Paths}
        \cup {[success |-> FALSE, filename |-> FALSE, size |-> 0]}

RECURSIVE CountAll(_, _)
CountAll(st, results) ==
    IF results = <<>> THEN st
    ELSE CountAll(CountResult(st, Head(results)), Tail(results))

AddStats(a, b) ==
    [successful_downloads |-> a.successful_downloads + b.successful_downloads,
     failed_downloads |-> a.failed_downloads + b.failed_downloads,
     total_size |-> a.total_size + b.total_size]

RECURSIVE SumStats(_, _)
SumStats(st, slices) ==
    IF slices = <<>> THEN st
    ELSE SumStats(AddStats(st, CountAll(ZeroStats, Head(slices))), Tail(slices))

\* `if max_processes == 1`: the whole list in one thread pool
SingleMode(results) == CountAll(ZeroStats, results)

\* else: one process_download_batch per slice, the parent adds them up
MultiMode(results, procs) == SumStats(ZeroStats, process_args(results, procs))

StatIdle ==
    /\ st_pc = "input"
    /\ st_tasks = <<>>
    /\ st_procs = 1
    /\ st_single = ZeroStats
    /\ st_multi = ZeroStats
    /\ st_slices = <<>>

StatInit ==
    /\ st_pc = "input"
    /\ st_tasks \in SeqsUpTo(ResultChoices, MaxTasks)
    /\ st_procs \in 1..(MaxProcs + 1)
    /\ st_single = ZeroStats
    /\ st_multi = ZeroStats
    /\ st_slices = <<>>

RunSingle ==
    /\ st_pc \in {"input", "multi"}
    /\ st_single' = SingleMode(st_tasks)
    /\ st_pc' = IF st_pc = "input" THEN "single" ELSE "both"
    /\ UNCHANGED <<st_tasks, st_procs, st_multi, st_slices, groupVars,
                   fetchVars, selVars, pairVars,
                   orderVars>>

RunMulti ==
    /\ st_pc \in {"input", "single"}
    /\ st_multi' = MultiMode(st_tasks, st_procs)
    /\ st_slices' = process_args(st_tasks, st_procs)
    /\ st_pc' = IF st_pc = "input" THEN "multi" ELSE "both"
    /\ UNCHANGED <<st_tasks, st_procs, st_single, groupVars, fetchVars,
                   selVars, pairVars,
                   orderVars>>

NextStats == RunSingle \/ RunMulti

(***************************************************************************)
(* The choice of a group's partitions (SpecSelect): download_group_files_mp *)
(* from the listing of input_dir to the filter of the completed files.     *)
(***************************************************************************)
\* files_per_group = 50
files_per_group == 50

Max(a, b) == IF a > b THEN a ELSE b

\* parquet_files.sort(): a file stands as the rank of its name, so the
\* sorted list is the ascending one
RECURSIVE sorted(_)
sorted(S) ==
    IF S = {} THEN <<>>
    ELSE LET middle == CHOOSE x \in S :
                 Cardinality({y \in S : y < x}) = Cardinality(S) \div 2
         IN  sorted({y \in S : y < middle}) \o <<middle>>
                 \o sorted({y \in S : y > middle})

\* the number of groups rounded down
total_groups_floor(total_files) == total_files \div files_per_group

\* total_groups = math.ceil(total_files / files_per_group)
total_groups(total_files) ==
    (total_files + files_per_group - 1) \div files_per_group

\* a bound of a Python slice of a list of length n: a negative one counts
\* from the end, and both are clipped to the list
SliceIndex(i, n) == IF i < 0 THEN Max(i + n, 0) ELSE Min(i, n)

\* the Python slice s[lo:hi]
Slice(s, lo, hi) ==
    SubSeq(s, SliceIndex(lo, Len(s)) + 1, SliceIndex(hi, Len(s)))

start_file_index(group_id) == group_id * files_per_group

end_file_index(group_id, total_files) ==
    Min(start_file_index(group_id) + files_per_group, total_files)

\* current_group_files = parquet_files[start_file_index:end_file_index]
GroupFiles(parquet_files, group_id) ==
    Slice(parquet_files, start_file_index(group_id),
          end_file_index(group_id, Len(parquet_files)))

SelIdle ==
    /\ sel_pc = "start"
    /\ sel_glob = {}
    /\ sel_gid = 0
    /\ sel_record = <<>>
    /\ sel_completed = {}
    /\ sel_files = <<>>
    /\ sel_remaining = <<>>

\* the *.parquet files of input_dir: total names, and with them or not the
\* first of them once more with a blank before it
Listings ==
    {0..(total - 1) : total \in 0..MaxTotal}
        \cup {{Padded(0)} \cup 0..(total - 1) :
                  total \in {1, files_per_group, MaxTotal}}

\* the files of input_dir, the --group_id given, and the record as earlier
\* runs left it: missing or empty, every file, or the first file of every
\* group
SelInit ==
    /\ sel_pc = "start"
    /\ sel_glob \in Listings
    /\ sel_gid \in (0 - MaxNegGid)..MaxGid
    /\ LET parquet_files == sorted(sel_glob)
           groups == total_groups(Len(parquet_files))
       IN  sel_record \in
              {<<>>, parquet_files,
               [g \in 1..groups |-> parquet_files[start_file_index(g - 1) + 1]]}
    /\ sel_completed = {}
    /\ sel_files = <<>>
    /\ sel_remaining = <<>>

\* from glob to current_group_files: no file found, group_id >=
\* total_groups, or the slice of the sorted list
SelectGroup ==
    /\ sel_pc = "start"
    /\ LET parquet_files == sorted(sel_glob)
           total_files == Len(parquet_files)
       IN  IF total_files = 0
           THEN sel_pc' = "nofiles" /\ UNCHANGED sel_files
           ELSE IF sel_gid >= total_groups(total_files)
           THEN sel_pc' = "rejected" /\ UNCHANGED sel_files
           ELSE /\ sel_pc' = "selected"
                /\ sel_files' = GroupFiles(parquet_files, sel_gid)
    /\ UNCHANGED <<sel_glob, sel_gid, sel_record, sel_completed, sel_remaining>>
    /\ UNCHANGED <<groupVars, fetchVars, statVars, pairVars,
                   orderVars>>

\* the record is loaded (the read may fail after upto lines) and the
\* completed files are filtered out; `if not remaining_files` ends the run,
\* else the loop over remaining_files is entered
FilterCompleted(upto) ==
    /\ sel_pc = "selected"
    /\ upto <= Len(sel_record)
    /\ LET loaded == load_completed_files(sel_record, upto)
           rem == SelectSeq(sel_files, LAMBDA x : x \notin loaded)
       IN  /\ sel_completed' = loaded
           /\ sel_remaining' = rem
           /\ sel_pc' = IF rem = <<>> THEN "complete" ELSE "processing"
    /\ UNCHANGED <<sel_glob, sel_gid, sel_record, sel_files>>
    /\ UNCHANGED <<groupVars, fetchVars, statVars, pairVars,
                   orderVars>>

NextSelect ==
    \/ SelectGroup
    \/ \E upto \in 0..(MaxTotal + 1) : FilterCompleted(upto)

(***************************************************************************)
(* Two runs at once, of any two groups, on the same input_dir and          *)
(* output_dir (SpecPair): the paths under output_dir each of them writes.  *)
(***************************************************************************)
Runners == 1..2

output_dir == "out"

\* the decimal digits of a natural number, the most significant first
RECURSIVE Digits(_)
Digits(n) == IF n < 10 THEN <<n>> ELSE Append(Digits(n \div 10), n % 10)

DigitChars == <<"0", "1", "2", "3", "4", "5", "6", "7", "8", "9">>

\* f"{n:04d}": the digits, padded with zeros to four characters, the sign of
\* a negative number counted among them
Format04d(n) ==
    LET ds == Digits(IF n < 0 THEN 0 - n ELSE n)
        pad == Max((IF n < 0 THEN 3 ELSE 4) - Len(ds), 0)
        body == [i \in 1..(pad + Len(ds)) |->
                    IF i <= pad THEN "0" ELSE DigitChars[ds[i - pad] + 1]]
    IN  IF n < 0 THEN <<"-">> \o body ELSE body

\* a path under a directory: the name of the entry (its pieces in order)
\* and, for a file of a destination directory, its rel_path
PathIn(dir, name, rel_path) == [dir |-> dir, top |-> name, sub |-> rel_path]

\* one checkpoint file for all groups
get_checkpoint_path_shared(dir, group_id) ==
    PathIn(dir, <<"checkpoint_group", ".json">>, "")

\* os.path.join(output_dir, f"checkpoint_group_{group_id:04d}.json")
get_checkpoint_path(dir, group_id) ==
    PathIn(dir, <<"checkpoint_group_">> \o Format04d(group_id) \o <<".json">>, "")

\* os.path.join(output_dir, f"completed_files_group_{group_id:04d}.txt")
get_completed_files_path(dir, group_id) ==
    PathIn(dir, <<"completed_files_group_">> \o Format04d(group_id) \o <<".txt">>, "")

\* os.path.basename of the file of input_dir of a given rank: the names of
\* a directory are distinct, and sorted as their ranks
basename(rank) == <<"part_">> \o Format04d(rank) \o <<".parquet">>

\* os.path.splitext(name)[0]: the name without its extension
splitext(name) == SubSeq(name, 1, Len(name) - 1)

\* current_dir = os.path.join(output_dir, parquet_filename)
current_dir(dir, rank) == splitext(basename(rank))

\* the paths one iteration of the loop over remaining_files writes: the
\* destination files of the partition's rows, the record, the checkpoint
LoopWrites(dir, group_id, rank) ==
    {PathIn(dir, current_dir(dir, rank), rel_path) : rel_path \in FilePaths}
        \cup {get_completed_files_path(dir, group_id),
              get_checkpoint_path(dir, group_id)}

PairIdle ==
    /\ pr_glob = {}
    /\ pr_gid = [r \in Runners |-> 0]
    /\ pr_pc = [r \in Runners |-> "start"]
    /\ pr_remaining = [r \in Runners |-> <<>>]
    /\ pr_index = [r \in Runners |-> 0]
    /\ pr_writes = [r \in Runners |-> {}]

\* input_dir holds no file, one full group, or two full groups and a group
\* of one file; output_dir is empty, and each run is given a group_id
PairInit ==
    /\ pr_glob \in {0..(total - 1) :
                       total \in {0, files_per_group, 2 * files_per_group + 1}}
    /\ pr_gid \in [Runners -> 0..MaxGid]
    /\ pr_pc = [r \in Runners |-> "start"]
    /\ pr_remaining = [r \in Runners |-> <<>>]
    /\ pr_index = [r \in Runners |-> 0]
    /\ pr_writes = [r \in Runners |-> {}]

PairFrame(r) ==
    /\ \A q \in Runners \ {r} :
          /\ pr_pc'[q] = pr_pc[q]
          /\ pr_remaining'[q] = pr_remaining[q]
          /\ pr_index'[q] = pr_index[q]
          /\ pr_writes'[q] = pr_writes[q]
    /\ UNCHANGED <<pr_glob, pr_gid, groupVars, fetchVars, statVars, selVars,
                   orderVars>>

\* download_group_files_mp of run r up to its loop; the record of its group
\* is loaded as the lines the run's path holds (none yet)
PairStart(r) ==
    /\ pr_pc[r] = "start"
    /\ LET parquet_files == sorted(pr_glob)
           total_files == Len(parquet_files)
       IN  IF total_files = 0
           THEN /\ pr_pc' = [pr_pc EXCEPT ![r] = "nofiles"]
                /\ UNCHANGED pr_remaining
           ELSE IF pr_gid[r] >= total_groups(total_files)
           THEN /\ pr_pc' = [pr_pc EXCEPT ![r] = "rejected"]
                /\ UNCHANGED pr_remaining
           ELSE /\ pr_pc' = [pr_pc EXCEPT ![r] = "loop"]
                /\ pr_remaining' = [pr_remaining EXCEPT ![r] =
                                       GroupFiles(parquet_files, pr_gid[r])]
    /\ UNCHANGED <<pr_index, pr_writes>>
    /\ PairFrame(r)

\* one iteration of the loop of run r: the partition is processed, its
\* filename appended to the record, the checkpoint saved
PairStep(r) ==
    /\ pr_pc[r] = "loop"
    /\ pr_writes' = [pr_writes EXCEPT ![r] = @ \cup
          LoopWrites(output_dir, pr_gid[r], pr_remaining[r][pr_index[r] + 1])]
    /\ pr_index' = [pr_index EXCEPT ![r] = @ + 1]
    /\ pr_pc' = [pr_pc EXCEPT ![r] =
                   IF pr_index[r] + 1 < Len(pr_remaining[r])
                   THEN "loop" ELSE "done"]
    /\ UNCHANGED pr_remaining
    /\ PairFrame(r)

NextPair ==
    \/ \E r \in Runners : PairStart(r)
    \/ \E r \in Runners : PairStep(r)

(***************************************************************************)
(* One partition processed against a fixed remote (SpecOrder): the task    *)
(* list and the answer of every URL are given, the order in which the      *)
(* fetches and the worker processes complete is free.                      *)
(***************************************************************************)
\* the repositories the rows name
Repos == {"r", "s"}

\* a row's URL, https://raw.githubusercontent.com/{repo}/{commit_id}/{rel_path},
\* as its repo and its rel_path
Urls == Repos \X FilePaths

\* the tuples of download_tasks for rows <<repo, rel_path>>, start_index 0:
\* every task has the same current_dir
OrderTasks(rows) ==
    [j \in 1..Len(rows) |->
        [repo |-> rows[j][1], path |-> rows[j][2], idx |-> j - 1]]

\* the fetch of a task with the files fs on disk: the destination is
\* current_dir joined with rel_path, whatever the repo
OrderFetch(task, fs) ==
    download_file_from_github(1, task.path,
                              od_remote[<<task.repo, task.path>>], fs)

\* the statistics when the tasks complete one after the other in the order
\* of the list (--processes 1 --threads 1)
RECURSIVE InOrder(_, _, _)
InOrder(tasks, fs, st) ==
    IF tasks = <<>> THEN st
    ELSE LET result == OrderFetch(Head(tasks), fs)
         IN  InOrder(Tail(tasks),
                     IF result.written
                     THEN fs \cup {<<1, Head(tasks).path>>} ELSE fs,
                     CountResult(st, result))

OrderIdle ==
    /\ od_rows = <<>>
    /\ od_remote = [u \in Urls |-> "ok"]
    /\ od_workers = 1
    /\ od_procs = 1
    /\ od_pc = "call"
    /\ od_files = {}
    /\ od_batches = <<>>
    /\ od_stats = ZeroStats

\* the rows of the partition, the remote, the budgets; current_dir is empty
OrderInit ==
    /\ od_rows \in SeqsUpTo(Urls, MaxOrderRows)
    /\ od_remote \in [Urls -> NetOutcomes]
    /\ od_workers \in 1..MaxWorkers
    /\ od_procs \in 1..MaxProcs
    /\ od_pc = "call"
    /\ od_files = {}
    /\ od_batches = <<>>
    /\ od_stats = ZeroStats

OrderFrame == UNCHANGED <<od_rows, od_remote, od_workers, od_procs, groupVars,
                          fetchVars, statVars, selVars, pairVars>>

\* `if not download_tasks`, `if max_processes == 1`, else the slices
OrderDispatch ==
    /\ od_pc = "call"
    /\ LET tasks == OrderTasks(od_rows)
           slices == process_args(tasks, od_procs)
       IN  IF tasks = <<>>
           THEN od_pc' = "returned" /\ UNCHANGED od_batches
           ELSE IF od_procs = 1
           THEN /\ od_pc' = "single"
                /\ od_batches' = <<NewBatch(tasks, od_workers)>>
           ELSE /\ od_pc' = "multi"
                /\ od_batches' = [j \in DOMAIN slices |->
                                     NewBatch(slices[j], od_workers)]
    /\ UNCHANGED <<od_files, od_stats>>
    /\ OrderFrame

\* single-process mode: a worker thread's result comes back and is counted
OrderSingleResult(t) ==
    /\ od_pc = "single"
    /\ t \in InFlight(od_batches[1])
    /\ LET task == od_batches[1].tasks[t]
           result == OrderFetch(task, od_files)
       IN  /\ od_files' = IF result.written
                          THEN od_files \cup {<<1, task.path>>} ELSE od_files
           /\ od_stats' = CountResult(od_stats, result)
           /\ od_batches' = [od_batches EXCEPT ![1].done = @ \cup {t},
                 ![1].bad = IF result.success THEN @ ELSE @ \cup {t}]
    /\ UNCHANGED od_pc
    /\ OrderFrame

\* process_download_batch: a worker thread's result comes back and is counted
OrderBatchResult(j, t) ==
    /\ od_pc = "multi"
    /\ j \in DOMAIN od_batches
    /\ t \in InFlight(od_batches[j])
    /\ LET b == od_batches[j]
           result == OrderFetch(b.tasks[t], od_files)
       IN  /\ od_files' = IF result.written
                          THEN od_files \cup {<<1, b.tasks[t].path>>}
                          ELSE od_files
           /\ od_batches' = [od_batches EXCEPT ![j] =
                 [b EXCEPT !.done = @ \cup {t},
                           !.bad = IF result.success THEN @ ELSE @ \cup {t},
                           !.stats = CountResult(@, result)]]
    /\ UNCHANGED <<od_pc, od_stats>>
    /\ OrderFrame

\* a worker process returns and the parent adds its statistics
OrderBatchReturn(j) ==
    /\ od_pc = "multi"
    /\ j \in DOMAIN od_batches
    /\ ~od_batches[j].returned
    /\ PoolLeft(od_batches[j])
    /\ od_stats' = AddStats(od_stats, process_download_batch(od_batches[j]))
    /\ od_batches' = [od_batches EXCEPT ![j].returned = TRUE]
    /\ UNCHANGED <<od_pc, od_files>>
    /\ OrderFrame

\* the pool is left, the processor returns its statistics
OrderReturn ==
    /\ \/ od_pc = "single" /\ PoolLeft(od_batches[1])
       \/ od_pc = "multi" /\ \A j \in DOMAIN od_batches : od_batches[j].returned
    /\ od_pc' = "returned"
    /\ UNCHANGED <<od_files, od_batches, od_stats>>
    /\ OrderFrame

NextOrder ==
    \/ OrderDispatch
    \/ \E t \in 1..MaxOrderRows : OrderSingleResult(t)
    \/ \E j \in 1..MaxProcs, t \in 1..MaxOrderRows : OrderBatchResult(j, t)
    \/ \E j \in 1..MaxProcs : OrderBatchReturn(j)
    \/ OrderReturn

(***************************************************************************)
(* The specifications.                                                     *)
(***************************************************************************)
NoManifest == manifest = [p \in Partitions |-> <<>>]

Init ==
    /\ manifest \in [Partitions -> ManifestChoices]
    /\ GroupIdle
    /\ FetchIdle
    /\ StatIdle
    /\ SelIdle
    /\ PairIdle
    /\ OrderIdle

\* the values of --processes
ProcessBudgets == (0 - MaxNegProcs)..MaxProcs

\* the values of --threads
ThreadBudgets == 0..MaxWorkers

Next ==
    \/ \E mw \in ThreadBudgets, mp \in ProcessBudgets,
            upto \in 0..Len(record) :
         download_group_files_mp(mw, mp, upto)
    \/ ReadFails
    \/ NoTasks
    \/ DispatchSingle
    \/ DispatchMulti
    \/ DispatchRaises
    \/ \E t \in 1..MaxRows, net \in NetOutcomes : SingleResult(t, net)
    \/ \E j \in 1..MaxProcs, t \in 1..MaxRows, net \in NetOutcomes :
         BatchResult(j, t, net)
    \/ \E j \in 1..MaxProcs, k \in 0..MaxWorkers : PoolRaises(j, k)
    \/ \E j \in 1..MaxProcs : BatchReturn(j)
    \/ \E j \in 1..MaxProcs : WorkerDies(j)
    \/ ReturnMulti
    \/ ReturnSingle
    \/ Kill

Spec == Init /\ [][Next]_vars

(***************************************************************************)
(* SpecLive: runs that are not killed, in which every fetch returns, no    *)
(* worker is starved and the process goes on while it can.                 *)
(***************************************************************************)
\* a step of a running run other than a fault of its own
Progress ==
    \/ ReadFails
    \/ NoTasks
    \/ DispatchSingle
    \/ DispatchMulti
    \/ DispatchRaises
    \/ \E t \in 1..MaxRows, net \in NetOutcomes : SingleResult(t, net)
    \/ \E j \in 1..MaxProcs, t \in 1..MaxRows, net \in NetOutcomes :
         BatchResult(j, t, net)
    \/ \E j \in 1..MaxProcs : BatchReturn(j)
    \/ ReturnMulti
    \/ ReturnSingle

NextLive ==
    \/ \E mw \in ThreadBudgets, mp \in ProcessBudgets,
            upto \in 0..Len(record) :
         download_group_files_mp(mw, mp, upto)
    \/ \E j \in 1..MaxProcs, k \in 0..MaxWorkers : PoolRaises(j, k)
    \/ \E j \in 1..MaxProcs : WorkerDies(j)
    \/ Progress

SpecLive == Init /\ [][NextLive]_vars /\ WF_vars(Progress)

(***************************************************************************)
(* SpecCkpt: the group controller in single-process mode with one thread,  *)
(* over partitions long enough for a checkpoint entry to be written.       *)
(***************************************************************************)
\* a manifest of n rows: its first row names any file, the others "a"
BigManifest(first, n) == [i \in 1..n |-> IF i = 1 THEN first ELSE "a"]

\* a partition has no row, or enough rows for a checkpoint entry
BigManifestChoices ==
    {BigManifest(first, n) : first \in FilePaths,
                             n \in {0, CHECKPOINT_EVERY, CHECKPOINT_EVERY + 1}}

InitCkpt ==
    /\ manifest \in [Partitions -> BigManifestChoices]
    /\ GroupIdle
    /\ FetchIdle
    /\ StatIdle
    /\ SelIdle
    /\ PairIdle
    /\ OrderIdle

\* --threads 1 --processes 1; of the GETs only that of a partition's first
\* row may fail, no pool raises, and a kill comes between two partitions or
\* before the first result of one
NextCkpt ==
    \/ \E upto \in 0..Len(record) : download_group_files_mp(1, 1, upto)
    \/ ReadFails
    \/ NoTasks
    \/ DispatchSingle
    \/ \E t \in 1..(CHECKPOINT_EVERY + 1), net \in NetOutcomes :
         /\ SingleResult(t, net)
         /\ net = "error" => batches[1].tasks[t].idx = 0
    \/ ReturnSingle
    \/ Kill /\ (ppc = "call" \/ batches[1].done = {})

SpecCkpt == InitCkpt /\ [][NextCkpt]_vars

InitFetch ==
    NoManifest /\ GroupIdle /\ FetchInit /\ StatIdle /\ SelIdle /\ PairIdle
        /\ OrderIdle

SpecFetch == InitFetch /\ [][NextFetch]_vars

InitStats ==
    NoManifest /\ GroupIdle /\ FetchIdle /\ StatInit /\ SelIdle /\ PairIdle
        /\ OrderIdle

SpecStats == InitStats /\ [][NextStats]_vars

InitSelect ==
    NoManifest /\ GroupIdle /\ FetchIdle /\ StatIdle /\ SelInit /\ PairIdle
        /\ OrderIdle

SpecSelect == InitSelect /\ [][NextSelect]_vars

InitPair ==
    NoManifest /\ GroupIdle /\ FetchIdle /\ StatIdle /\ SelIdle /\ PairInit
        /\ OrderIdle

SpecPair == InitPair /\ [][NextPair]_vars

InitOrder ==
    NoManifest /\ GroupIdle /\ FetchIdle /\ StatIdle /\ SelIdle /\ PairIdle
        /\ OrderInit

SpecOrder == InitOrder /\ [][NextOrder]_vars

(***************************************************************************)
(* Properties of the group controller (Spec).                              *)
(***************************************************************************)
Recorded == Range(record)

RowsOf(p) == {<<p, i>> : i \in 0..(Len(manifest[p]) - 1)}

C2_RecordedAllAttempted ==
    \A p \in Recorded : RowsOf(p) \subseteq attempted

\* C3, as claimed: a processor that got through its partition (no
\* exception) returns success=true exactly when no descriptor failed.
C3_SuccessIffNoFailure ==
    (lastResult # NoResult /\ lastResult.error = "none") =>
        (lastResult.success <=> lastResult.failed_downloads = 0)

\* C4, as claimed: a partition with a descriptor whose fetch failed (and has
\* not succeeded since) is not recorded complete.
C4_FailedNotRecorded ==
    \A p \in Recorded : RowsOf(p) \cap failedRows = {}

IsPrefix(s, t) == Len(s) <= Len(t) /\ \A i \in 1..Len(s) : s[i] = t[i]

NotIn(S) == SelectSeq(current_group_files, LAMBDA x : x \notin S)

C6_ExistingIsSkipped ==
    /\ [](\A t \in Fetchers :
            /\ (existedAtStart[t] /\ fpc[t] \in {"ret", "done"}) =>
                   (fres[t].success /\ requests[t] = 0)
            /\ requests[t] > 0 => checked[t])
    /\ [][\A t \in Fetchers :
            (existedAtStart[t] /\ fpc[t] # "ret" /\ fpc'[t] = "ret") =>
                fres'[t].size = disk[PathOf(t)]]_vars

\* C6, its case: a fetch that found its destination has returned a non-zero
\* size with no request, while a fetch of an absent destination issued one
C6_Witness ==
    \E t, u \in Fetchers :
        /\ existedAtStart[t] /\ fpc[t] = "done"
        /\ wres[t].success /\ wres[t].size > 0 /\ requests[t] = 0
        /\ ~existedAtStart[u] /\ requests[u] = 1

\* C7, as claimed: once a destination file exists no fetch opens it for
\* writing, under every interleaving of concurrent fetches.
C7_WriteOnce ==
    [][\A t \in Fetchers :
          (fpc[t] = "open" /\ fpc'[t] = "write") =>
              disk[PathOf(t)] = Absent]_vars

\* C8, as claimed: a thread pool that is left without an exception outside
\* its fetches has attempted every one of its n tasks, and counts as failed
\* exactly the tasks whose fetch failed and as succeeded the n - |F|
\* others.
C8_FailureIsolation ==
    (pc = "running" /\ ppc \in {"single", "multi"}) =>
        \A j \in DOMAIN batches :
            LET b == batches[j]
                n == Len(b.tasks)
                left == IF ppc = "multi" THEN b.returned ELSE b.done = 1..b.limit
                st == IF ppc = "multi" THEN process_download_batch(b)
                      ELSE [successful_downloads |->
                                successful_downloads - start_index,
                            failed_downloads |-> failed_downloads,
                            total_size |-> total_size]
            IN  (left /\ ~b.crashed) =>
                    /\ b.done = 1..n
                    /\ \A t \in 1..n : <<Current, b.tasks[t].idx>> \in attempted
                    /\ st.failed_downloads = Cardinality(b.bad)
                    /\ st.successful_downloads = n - Cardinality(b.bad)

\* C9, as claimed: no failure of a fetch leaves download_file_from_github as
\* an exception; each is returned with success=false and an error, and the
\* result of the worker wrapper carries the task's index, source and
\* relative path.
C9_FailuresAreResults ==
    \A t \in Fetchers :
        /\ fpc[t] \in {"ret", "done"} =>
               /\ ~fres[t].raised
               /\ fres[t].success <=> fres[t].error = "none"
               /\ fres[t].error # "pending"
        /\ fpc[t] = "done" =>
               /\ wres[t].success = fres[t].success
               /\ wres[t].error = fres[t].error
               /\ wres[t].file_index = ftask[t].idx
               /\ wres[t].repo = ftask[t].repo
               /\ wres[t].rel_path = ftask[t].rel_path

\* C9, its case: one fetch failed on the network and another on the local
\* write, and both came back from the wrapper as results
C9_Witness ==
    \E t, u \in Fetchers :
        /\ fpc[t] = "done" /\ wres[t].error \in FetchErrors
        /\ fpc[u] = "done" /\ wres[u].error = "write"
        /\ ~wres[t].success /\ ~wres[u].success

\* C10, as claimed: for a task list and its fetch results, the sum of the
\* statistics of the slices of multi-process mode equals the statistics of
\* the unsliced list in single-process mode, for every number of processes.
C10_SlicedSumEqualsWhole ==
    st_pc = "both" => st_multi = st_single

\* C10, its case: a list cut into slices of unequal length, with successes
\* and a failure among its results
C10_Witness ==
    /\ st_pc = "both"
    /\ st_procs = 2
    /\ Len(st_tasks) = 3
    /\ st_single.failed_downloads = 1
    /\ st_single.successful_downloads = 2

\* the number of groups of a list of total files, as the least k with
\* k * 50 >= total
GroupCount(total) ==
    CHOOSE k \in 0..total :
        k * files_per_group >= total /\ (k = 0 \/ (k - 1) * files_per_group < total)

\* the positions [g * 50, min((g + 1) * 50, total)) in ascending order
Positions(g, total) ==
    [i \in 1..(Min((g + 1) * files_per_group, total) - g * files_per_group) |->
        g * files_per_group + i - 1]

\* C11, as claimed: of a sorted list of T partitions a valid group_id g is
\* given exactly the positions [g * 50, min((g + 1) * 50, T)), the groups of
\* the valid ids are pairwise disjoint and cover the list, and a group_id
\* of total_groups or more is out of range.
C11_GroupBoundaries ==
    LET total == Cardinality(sel_glob)
        valid == 0..(GroupCount(total) - 1)
        parquet_files == sorted(sel_glob)
    IN  /\ (sel_pc # "start" /\ sel_gid \in valid) =>
               /\ sel_pc \in {"selected", "complete", "processing"}
               /\ sel_files = [i \in DOMAIN Positions(sel_gid, total) |->
                                 parquet_files[Positions(sel_gid, total)[i] + 1]]
        /\ (sel_pc # "start" /\ total > 0 /\ sel_gid >= GroupCount(total)) =>
               sel_pc = "rejected"
        /\ \A g, h \in valid :
               g # h => Range(GroupFiles(parquet_files, g))
                          \cap Range(GroupFiles(parquet_files, h)) = {}
        /\ UNION {Range(GroupFiles(parquet_files, g)) : g \in valid} = sel_glob

\* C11, its case: of 120 partitions group 2 was given the 20 positions from
\* 100 on
C11_Witness ==
    /\ sel_pc = "processing"
    /\ Cardinality(sel_glob) = 120
    /\ sel_gid = 2
    /\ sel_files = [i \in 1..20 |-> 99 + i]

\* C12, as claimed: with a group_id outside [0, total_groups) the run never
\* gets to process a partition.
C12_OutOfRangeRejected ==
    (sel_gid < 0 \/ sel_gid >= GroupCount(Cardinality(sel_glob))) =>
        sel_pc # "processing"

Ascending(s) == \A i, j \in 1..Len(s) : i < j => s[i] < s[j]

\* C13, as claimed: within a run the processor is invoked on the remaining
\* partitions in ascending order, each at most once and, when the run
\* returns, each exactly once, whatever the results of the earlier ones.
C13_EachRemainingOnceInOrder ==
    /\ Ascending(invoked)
    /\ Range(invoked) \cap loadedSet = {}
    /\ pc = "running" =>
          /\ Ascending(remaining_files)
          /\ invoked = SubSeq(remaining_files, 1, Len(invoked))
          /\ Len(invoked) = file_index + (IF ppc = "call" THEN 0 ELSE 1)
    /\ lastEnd = "returned" =>
          /\ Ascending(invoked)
          /\ Range(invoked) = Range(current_group_files) \ loadedSet

\* C13, its case: a first run returned after two partitions, the first of
\* which ended with success=false
C13_Witness ==
    /\ runs = 1
    /\ lastEnd = "returned"
    /\ Len(invoked) = 2
    /\ retLog[invoked[1]] = {"failed"}
    /\ lastResult.filename = invoked[2]

\* C14, as claimed: over the runs of a group no partition filename is
\* appended to the CompletionRecord twice.
C14_AppendedAtMostOnce ==
    \A i, j \in 1..Len(record) : i # j => record[i] # record[j]

IndexOf(s, x) == CHOOSE i \in 1..Len(s) : s[i] = x

\* C15, as claimed: a partition that was in progress when a run was killed
\* is not in the CompletionRecord, and the next run (one that reads the
\* record without error) processes it again from its first row.
C15_KilledPartitionRetriedWhole ==
    [][(pc = "idle" /\ lastEnd = "killed" /\ inProgress # 0
          /\ runs' = runs + 1 /\ ~loadFault') =>
            /\ inProgress \notin Range(record)
            /\ inProgress \in Range(remaining_files')
            /\ ResumeIndex(checkpoint_data',
                           IndexOf(remaining_files', inProgress) - 1) = 0]_vars

\* C18, as claimed: the checkpoint entry a partition is resumed from was
\* written by an earlier processing of that partition, so a partition that
\* was never processed to its end before is not resumed from an entry.
C18_EntryOfSamePartition ==
    (pc = "running" /\ ppc = "call"
        /\ ResumeIndex(checkpoint_data, file_index) > 0) =>
            retLog[Current] # {}

\* C19, as claimed: when a partition is resumed from the entry its own
\* earlier processing wrote (it stands where it stood then), the rows below
\* the entry's completed_files were attempted and their fetch succeeded.
C19_SkippedRowsSucceeded ==
    (pc = "running" /\ ppc = "call" /\ file_index + 1 = Current
        /\ retLog[Current] # {}) =>
            \A i \in 0..(Min(ResumeIndex(checkpoint_data, file_index),
                              Len(manifest[Current])) - 1) :
                <<Current, i>> \in attempted \ failedRows

\* what a result tells apart from the task it belongs to
Content(result) == [result EXCEPT !.file_index = 0, !.rel_path = ""]

\* C16, as claimed: the result of a fetch that skipped an existing
\* destination (no request) differs from the result of a fetch that
\* downloaded it, by a skipped field or otherwise.
C16_SkippedDistinguishable ==
    \A t, u \in Fetchers :
        (/\ fpc[t] = "done" /\ wres[t].success /\ requests[t] = 0
         /\ fpc[u] = "done" /\ wres[u].success /\ requests[u] > 0) =>
            \/ "skipped" \in DOMAIN wres[t]
            \/ Content(wres[t]) # Content(wres[u])

\* C17, as claimed: a run that is not killed, all of whose fetches return,
\* eventually returns, the processor having returned a result for every
\* partition that remained.
C17_RunTerminates ==
    (pc = "running") ~>
        (/\ pc = "idle"
         /\ lastEnd = "returned"
         /\ Range(invoked) = Range(current_group_files) \ loadedSet
         /\ \A p \in Range(invoked) : retLog[p] # {})

\* C17, its case: a run returned after a partition whose read failed and a
\* partition with a failed fetch
C17_Witness ==
    /\ runs = 1
    /\ pc = "idle" /\ lastEnd = "returned"
    /\ Len(invoked) = 2
    /\ retLog[invoked[1]] = {"failed"}
    /\ lastResult.failed_downloads > 0

\* ceil(n / p), as the least c with c * p >= n
CeilDiv(n, p) == CHOOSE c \in 0..n : c * p >= n /\ (c = 0 \/ (c - 1) * p < n)

RECURSIVE Flatten(_)
Flatten(ss) == IF ss = <<>> THEN <<>> ELSE Head(ss) \o Flatten(Tail(ss))

\* C20, as claimed: with two processes or more a task list of length n is
\* cut into at most p slices, none empty, each of ceil(n / p) tasks but
\* possibly the last, which is shorter, and the slices one after another
\* are the list: every task is in exactly one slice, in the original order.
C20_ContiguousSlices ==
    (st_pc \in {"multi", "both"} /\ st_procs >= 2) =>
        LET n == Len(st_tasks)
            size == CeilDiv(n, st_procs)
            positions == [i \in 1..n |-> i]
        IN  /\ Len(st_slices) <= st_procs
            /\ \A j \in 1..Len(st_slices) :
                  /\ st_slices[j] # <<>>
                  /\ Len(st_slices[j]) <= size
                  /\ j < Len(st_slices) => Len(st_slices[j]) = size
            /\ Flatten(st_slices) = st_tasks
            /\ Flatten(process_args(positions, st_procs)) = positions

\* C20, its case: four tasks and three processes give two slices of two
C20_Witness ==
    /\ st_pc = "both"
    /\ st_procs = 3
    /\ Len(st_tasks) = 4
    /\ Len(st_slices) = 2
    /\ Len(st_slices[2]) = 2

\* C21, as claimed: a partition with tasks to run whose manifest was read
\* is handed to the thread pool of the processor's own process when the
\* process budget is 1 or less, and to the process pool when it is more.
C21_DispatchByBudget ==
    [][(/\ pc = "running" /\ ppc = "call"
        /\ Len(invoked') > Len(invoked)
        /\ download_tasks(manifest[Current],
                          ResumeIndex(checkpoint_data, file_index)) # <<>>
        /\ ~(ppc' = "call" /\ lastResult'.error = "read")) =>
            ppc' = IF max_processes <= 1 THEN "single" ELSE "multi"]_vars

\* C22, as claimed: in multi-process mode the processor does not return
\* success=true when a slice's worker failed as a whole: of every slice of
\* a partition that returns success=true, each task is in the succeeded or
\* in the failed count its worker returned.
C22_SliceFailureIsHard ==
    [][(/\ pc = "running" /\ ppc = "multi"
        /\ ppc' = "call" /\ lastEnd' # "killed"
        /\ lastResult'.success) =>
            \A j \in DOMAIN batches :
                LET r == process_download_batch(batches[j])
                IN  r.successful_downloads + r.failed_downloads
                        = Len(batches[j].tasks)]_vars

\* the processor returns to the loop of the controller
ProcessorReturns ==
    /\ pc = "running"
    /\ lastEnd' # "killed"
    /\ pc' = "idle" \/ file_index' = file_index + 1

\* C23, as claimed: when the read of the manifest fails, or an exception is
\* raised in the processor while it builds or dispatches the tasks, the
\* processor returns success=false with the error, the partition is not
\* appended to the CompletionRecord and the controller goes on to the next
\* partition (or returns after the last); a read failure comes before any
\* fetch of the partition.
C23_PartitionFailureIsResult ==
    [][ProcessorReturns =>
          /\ (ppc = "single" /\ batches[1].crashed) => lastResult'.error # "none"
          /\ (/\ ppc = "call" /\ max_processes <= 0
              /\ download_tasks(manifest[Current],
                                ResumeIndex(checkpoint_data, file_index)) # <<>>)
                 => lastResult'.error # "none"
          /\ lastResult'.error # "none" =>
                /\ lastResult'.filename = Current
                /\ ~lastResult'.success
                /\ record' = record
                /\ IF file_index + 1 < Len(remaining_files)
                   THEN /\ pc' = "running" /\ ppc' = "call"
                        /\ remaining_files' = remaining_files
                   ELSE pc' = "idle" /\ lastEnd' = "returned"
                /\ lastResult'.error = "read" =>
                      /\ ppc = "call"
                      /\ attempted' = attempted
                      /\ files' = files]_vars

\* C23, its case: the read of the first partition failed, none of its rows
\* was fetched, it is not recorded, and the run went on to fetch and record
\* the second
C23_Witness ==
    /\ runs = 1 /\ lastEnd = "returned"
    /\ invoked = <<1, 2>>
    /\ retLog[1] = {"failed"}
    /\ RowsOf(1) # {} /\ RowsOf(1) \cap attempted = {}
    /\ record = <<2>>
    /\ RowsOf(2) # {} /\ RowsOf(2) \subseteq attempted

\* C24, as claimed: a partition with zero rows whose manifest was read
\* returns success=true with succeeded 0, failed 0 and bytes 0, and no
\* thread or process was dispatched for it, in every run that processes
\* it.
C24_EmptyPartitionZeroStats ==
    [][(/\ ProcessorReturns
        /\ manifest[Current] = <<>>
        /\ lastResult'.error = "none") =>
            /\ ppc = "call"
            /\ lastResult'.success
            /\ lastResult'.total_files = 0
            /\ lastResult'.successful_downloads = 0
            /\ lastResult'.failed_downloads = 0
            /\ lastResult'.total_size = 0]_vars

\* C25, as claimed: the processor returns for a partition only when no task
\* of a pool it started is still running (the workers of a broken process
\* pool are ended with it), and every fetch is a fetch of the partition the
\* processor was invoked on last: no fetch of a later partition starts
\* while a fetch of an earlier one is in flight.
C25_PartitionsSequential ==
    [][/\ ProcessorReturns =>
            \/ \A j \in DOMAIN batches : InFlight(batches[j]) = {}
            \/ lastResult'.error = "broken"
       /\ Len(invoked') > Len(invoked) =>
            /\ batches = <<>>
            /\ \A j \in DOMAIN batches' : batches'[j].done = {}
       /\ \A row \in attempted' \ attempted :
            /\ invoked # <<>>
            /\ row[1] = invoked[Len(invoked)]
            /\ row[1] = Current]_vars

\* C25, its case: every row of a first partition of two rows was fetched,
\* and a fetch of the second partition is in flight
C25_Witness ==
    /\ runs = 1 /\ pc = "running"
    /\ invoked = <<1, 2>>
    /\ Len(manifest[1]) = 2
    /\ RowsOf(1) \subseteq attempted
    /\ \E j \in DOMAIN batches : InFlight(batches[j]) # {}

\* what a run that is a no-op does: it ends at once, reporting the group
\* complete, and has invoked no processor, fetched no row and changed
\* neither the record nor the checkpoint file nor a destination file
NoOpRun ==
    /\ pc' = "idle" /\ lastEnd' = "returned"
    /\ invoked' = <<>>
    /\ attempted' = attempted
    /\ record' = record
    /\ ckptFile' = ckptFile
    /\ files' = files

C27_AtMostOneRequest ==
    /\ [](\A t \in Fetchers :
            /\ requests[t] <= 1
            /\ (fpc[t] = "done" /\ wres[t].error \in FetchErrors) =>
                   (requests[t] = 1 /\ ~wres[t].success))
    /\ [][\A t \in Fetchers :
            /\ (fpc[t] = "done" /\ fpc'[t] # "idle") =>
                   (fpc'[t] = "done" /\ wres'[t] = wres[t]
                      /\ requests'[t] = requests[t])
            /\ (fpc[t] = "get" /\ fres'[t].error \in FetchErrors) =>
                   fpc'[t] = "ret"]_vars

\* C27, its case: a fetch whose one request failed has returned, and so
\* has a fetch whose one request succeeded
C27_Witness ==
    \E t, u \in Fetchers :
        /\ fpc[t] = "done" /\ ~wres[t].success
        /\ wres[t].error \in FetchErrors /\ requests[t] = 1
        /\ fpc[u] = "done" /\ wres[u].success /\ requests[u] = 1

\* C27, in the controller: in the first run of a group no row is handed to
\* download_file_from_github twice
C27_FirstRunFetchesOnce ==
    [][runs = 1 =>
          \A j \in DOMAIN batches :
              j \in DOMAIN batches' =>
                  \A t \in batches'[j].done \ batches[j].done :
                      <<Current, batches[j].tasks[t].idx>> \notin attempted]_vars

\* C28, as claimed: a file that a killed fetch left created and unwritten
\* stays as it is: every later fetch of its descriptor finds it, returns
\* success with the size on disk and issues no request, and no fetch
\* writes it again.
C28_TruncatedFileStays ==
    /\ [](\A path \in interrupted :
            /\ disk[path] # Absent /\ disk[path] < Size(path)
            /\ \A t \in Fetchers :
                  (PathOf(t) = path /\ fpc[t] \in {"ret", "done"}) =>
                      /\ fres[t].success
                      /\ fres[t].size = disk[path]
                      /\ requests[t] = 0)
    /\ [][\A path \in interrupted : disk'[path] = disk[path]]_vars

\* C28, its case: a fetch was killed between open and write (the file was
\* absent when the run began), and the fetch of the same descriptor in a
\* later run has returned success with size 0 and without a request, the
\* empty file still in place
C28_Witness ==
    \E t \in Fetchers :
        /\ PathOf(t) \in interrupted
        /\ fpc[t] = "done"
        /\ wres[t].success /\ wres[t].size = 0
        /\ requests[t] = 0
        /\ disk[PathOf(t)] = 0 /\ Size(PathOf(t)) > 0

\* the partitions run r has processed
Processed(r) == {pr_remaining[r][i] : i \in 1..pr_index[r]}

\* the destination directories run r has fetched into
DestinationDirs(r) == {path.top : path \in {q \in pr_writes[r] : q.sub # ""}}

\* C29, as claimed: two runs with distinct valid group_ids on the same
\* input_dir and output_dir process disjoint sets of partitions, have
\* distinct record files and distinct checkpoint files, fetch into disjoint
\* destination directories, and at every point of every interleaving no
\* path under output_dir has been written by both.
C29_DistinctGroupsDisjoint ==
    LET valid == 0..(GroupCount(Cardinality(pr_glob)) - 1)
    IN  (pr_gid[1] \in valid /\ pr_gid[2] \in valid /\ pr_gid[1] # pr_gid[2]) =>
            /\ Processed(1) \cap Processed(2) = {}
            /\ Range(pr_remaining[1]) \cap Range(pr_remaining[2]) = {}
            /\ get_completed_files_path(output_dir, pr_gid[1])
                  # get_completed_files_path(output_dir, pr_gid[2])
            /\ get_checkpoint_path(output_dir, pr_gid[1])
                  # get_checkpoint_path(output_dir, pr_gid[2])
            /\ DestinationDirs(1) \cap DestinationDirs(2) = {}
            /\ pr_writes[1] \cap pr_writes[2] = {}

\* C29, its case: the runs of two distinct valid groups have both come to
\* their end, each having processed partitions and written its files
C29_Witness ==
    /\ pr_gid[1] # pr_gid[2]
    /\ pr_pc[1] = "done" /\ pr_pc[2] = "done"
    /\ Processed(1) # {} /\ Processed(2) # {}
    /\ get_checkpoint_path(output_dir, pr_gid[1]) \in pr_writes[1]
    /\ get_completed_files_path(output_dir, pr_gid[2]) \in pr_writes[2]

\* the counters a thread pool has when it is left: those the worker process
\* returns, or those of the processor in single-process mode, less the
\* rows skipped by the checkpoint
PoolCounters(j) ==
    IF ppc = "multi" THEN process_download_batch(batches[j])
    ELSE [successful_downloads |-> successful_downloads - start_index,
          failed_downloads |-> failed_downloads,
          total_size |-> total_size]

\* C30, as claimed: when a batch returns all of whose tasks were submitted
\* and have come back, its succeeded and failed counts add up to the number
\* of its tasks, under every interleaving of its workers.
C30_NoCountLost ==
    (pc = "running" /\ ppc = "multi") =>
        \A j \in DOMAIN batches :
            (batches[j].returned /\ batches[j].done = 1..Len(batches[j].tasks)) =>
                PoolCounters(j).successful_downloads
                    + PoolCounters(j).failed_downloads = Len(batches[j].tasks)

\* C30, for the batches that no exception outside a fetch has hit: when
\* such a batch is left, every one of its tasks has come back and its
\* succeeded and failed counts add up to their number, in single- and in
\* multi-process mode
C30_NoCountLostWithoutException ==
    (pc = "running" /\ ppc \in {"single", "multi"}) =>
        \A j \in DOMAIN batches :
            LET b == batches[j]
                left == IF ppc = "multi" THEN b.returned ELSE PoolLeft(b)
            IN  (left /\ ~b.crashed) =>
                    /\ b.done = 1..Len(b.tasks)
                    /\ PoolCounters(j).successful_downloads
                          + PoolCounters(j).failed_downloads = Len(b.tasks)

(***************************************************************************)
(* Properties of the statistics under the completion orders (SpecOrder).   *)
(***************************************************************************)
\* C31: the statistics returned for a partition do not depend on the order
\* in which its concurrent fetches or worker processes complete: for a fixed
\* task list and fixed remote responses, every completion order yields the
\* successful_downloads, failed_downloads and total_size of the order of the
\* list.
C31_OrderIndependent ==
    od_pc = "returned" =>
        od_stats = InOrder(OrderTasks(od_rows), {}, ZeroStats)

\* no two rows of the partition have the same rel_path
DistinctDestinations ==
    \A i, j \in DOMAIN od_rows : od_rows[i][2] = od_rows[j][2] => i = j

\* C31, for the partitions whose rows have distinct destinations: the
\* statistics are those of the order of the list
C31_OrderIndependentIfDistinct ==
    (od_pc = "returned" /\ DistinctDestinations) =>
        od_stats = InOrder(OrderTasks(od_rows), {}, ZeroStats)

(***************************************************************************)
(* Properties of the partition results and of the pools (Spec, SpecOrder). *)
(***************************************************************************)
\* C32: for every partition result returned with success=true,
\* successful_downloads + failed_downloads equals total_files, the number of
\* rows of the partition, in single-process and in multi-process mode.
C32_ResultAddsUp ==
    lastResult.success =>
        lastResult.successful_downloads + lastResult.failed_downloads
            = lastResult.total_files

\* C32, for the partitions none of whose pools was hit by an exception
\* outside a fetch and that resumed from no checkpoint entry: the result
\* returned with success=true adds up to the rows of the partition
C32_AddsUpWithoutException ==
    [][(/\ ProcessorReturns
        /\ lastResult'.success
        /\ \A j \in DOMAIN batches : ~batches[j].crashed
        /\ ResumeIndex(checkpoint_data, file_index) = 0)
          => /\ lastResult'.total_files = Len(manifest[Current])
             /\ lastResult'.successful_downloads + lastResult'.failed_downloads
                   = lastResult'.total_files]_vars

\* a result of task t of pool j comes back and is counted
Counts(j, t) ==
    /\ pc = "running" /\ pc' = "running"
    /\ ppc \in {"single", "multi"} /\ ppc' = ppc
    /\ j \in DOMAIN batches /\ j \in DOMAIN batches'
    /\ ~batches[j].crashed
    /\ t \notin batches[j].done
    /\ t \in batches'[j].done

\* C33: every fetch result with success=true, downloaded or skipped, adds
\* one to successful_downloads and its size to total_size, and nothing to
\* failed_downloads; a result with success=false adds one to
\* failed_downloads only.
C33_SuccessesCounted ==
    [][\A j \in 1..MaxProcs, t \in 1..MaxRows :
          Counts(j, t) =>
              LET path == batches[j].tasks[t].path
                  before == PoolCounters(j)
                  after == PoolCounters(j)'
              IN  IF t \notin batches'[j].bad
                  THEN after = [before EXCEPT
                                   !.successful_downloads = @ + 1,
                                   !.total_size = @ + Size(path)]
                  ELSE after = [before EXCEPT !.failed_downloads = @ + 1]]_vars

\* C33, for the rows whose rel_path names a file: their results are counted
\* as claimed
C33_NamedSuccessesCounted ==
    [][\A j \in 1..MaxProcs, t \in 1..MaxRows :
          (Counts(j, t) /\ batches[j].tasks[t].path \in FilePaths) =>
              LET path == batches[j].tasks[t].path
                  before == PoolCounters(j)
                  after == PoolCounters(j)'
              IN  IF t \notin batches'[j].bad
                  THEN after = [before EXCEPT
                                   !.successful_downloads = @ + 1,
                                   !.total_size = @ + Size(path)]
                  ELSE after = [before EXCEPT !.failed_downloads = @ + 1]]_vars

\* C35: all tasks of a batch are submitted up front, and at every moment
\* the fetches in flight within one process are at most thread_budget and
\* the worker processes running slices of the partition at most
\* process_budget.
C35_BoundedConcurrency ==
    od_pc \in {"single", "multi"} =>
        /\ \A j \in DOMAIN od_batches :
              /\ od_batches[j].limit = Len(od_batches[j].tasks)
              /\ Cardinality(InFlight(od_batches[j])) <= od_workers
        /\ od_pc = "multi" =>
              Cardinality({j \in DOMAIN od_batches : ~od_batches[j].returned})
                  <= od_procs

\* C35, its case: three tasks, two processes with one thread each; both
\* worker processes are running, the first has one fetch in flight and one
\* task waiting for the thread
C35_Witness ==
    /\ od_pc = "multi"
    /\ Len(od_rows) = 3 /\ od_procs = 2 /\ od_workers = 1
    /\ Len(od_batches) = 2
    /\ \A j \in DOMAIN od_batches : ~od_batches[j].returned
    /\ Len(od_batches[1].tasks) = 2
    /\ od_batches[1].done = {}
    /\ InFlight(od_batches[1]) = {1}

\* C35, in the controller, with the budgets 0 and below and the exceptions
\* of the pools: the fetches in flight in a pool are at most --threads, the
\* worker processes that have not returned at most --processes
C35_BoundedInController ==
    (pc = "running" /\ ppc \in {"single", "multi"}) =>
        /\ \A j \in DOMAIN batches :
              Cardinality(InFlight(batches[j])) <= max_workers
        /\ ppc = "multi" =>
              Cardinality({j \in DOMAIN batches : ~batches[j].returned})
                  <= max_processes
        /\ ppc = "single" => Len(batches) = 1

(***************************************************************************)
(* Properties of the record as the run loads it (SpecSelect).              *)
(***************************************************************************)
\* the partitions of the group the run does not process
Skipped == Range(sel_files) \ Range(sel_remaining)

\* C34: the controller skips a partition of the group only if its filename
\* is a line of the group's record file; a record that is missing or cannot
\* be read does not end the run and makes no partition complete.
C34_SkipsOnlyRecorded ==
    sel_pc \in {"complete", "processing"} =>
        Skipped \subseteq Range(sel_record)

\* C34, with the lines as the run reads them: the run gets to its filter
\* whatever the read of the record does, a partition is skipped only if its
\* filename is a line of the record file without the white space around it,
\* and with nothing read from the record every partition of the group is
\* processed
C34_SkipsOnlyStripped ==
    sel_pc \in {"complete", "processing"} =>
        /\ Skipped \subseteq {strip(sel_record[i]) : i \in DOMAIN sel_record}
        /\ Skipped = Range(sel_files) \cap sel_completed
        /\ sel_completed = {} => sel_remaining = sel_files

(***************************************************************************)
(* Properties of the destination directory (SpecFetch).                    *)
(***************************************************************************)
\* C36: when fetches create the same destination directory concurrently,
\* all of them proceed: a fetch whose mkdir finds the directory there, made
\* by another fetch or by an earlier run, goes on to its existence check
\* and does not fail for it.
C36_ConcurrentMkdirProceeds ==
    \A t \in Fetchers :
        mkdirSaw[t] = "there" =>
            /\ fpc[t] \notin {"idle", "mkdir"}
            /\ fres[t].error # "mkdir"

\* C36, its case: two fetches are under way at once in a directory that was
\* not there; the mkdir of one made it, the mkdir of the other found it
\* there, and both stand at their existence check
C36_Witness ==
    \E t, u \in Fetchers :
        /\ mkdirSaw[t] = "absent" /\ mkdirSaw[u] = "there"
        /\ fpc[t] = "exists" /\ fpc[u] = "exists"
        /\ dirExists

====
